---- MODULE Spec2Model ----
(***************************************************************************)
(* Liquid-staking derivative contract (src/src/contract.rs, state.rs).     *)
(*                                                                         *)
(* The contract's storage (InvestmentInfo, Supply, the balance and claim   *)
(* buckets, the delegation bucket and the delegator list) is the state;    *)
(* every handler of `handle` is one action.  A handler is a function from  *)
(* the storage and the call's inputs to the storage it leaves behind and   *)
(* its response: writes are applied in the order the code makes them, so   *)
(* an error returned after a write leaves that write in the storage.       *)
(*                                                                         *)
(* The host (staking module and bank) is the environment: it holds the     *)
(* contract's delegation total, its free balance and the funds still       *)
(* unbonding, and executes the instructions of a response in order before  *)
(* any other message is delivered.                                         *)
(*                                                                         *)
(* Decimal values are whole percents: Decimal::percent(x) is x, and        *)
(* Uint128 * Decimal is floor(a * x / 100), which is what cosmwasm's       *)
(* floor(a * x * 10^16 / 10^18) computes for such values.                  *)
(***************************************************************************)
EXTENDS Integers, Sequences, FiniteSets, TLC

\* ---------------------------------------------------------------- bounds
\* most base tokens the host ever holds for the contract (free + delegated + unbonding)
MaxTotal == 4
\* largest payment attached to one Bond
MaxPay == 2
\* largest reward one Withdraw pays out
MaxReward == 2
\* largest amount named by a Transfer
MaxSend == 2
\* largest amount named by an Unbond
MaxUnbond == 2
\* how often the validator is slashed
MaxSlash == 1
\* most derivative tokens the balance bucket ever holds
MaxTokens == 4

\* largest commission (in percent) of a validator offered to select_validator
MaxCommission == 2
\* largest max-change-rate (in percent) of such a validator
MaxRate == 3

\* largest amount a delegator record holds
MaxAmount == 2
\* largest free balance the contract holds while delegator records are kept
MaxFree == 3

\* ------------------------------------------------------------- constants
\* Decimal::one() as a percentage
DECIMAL_ONE == 100
FALLBACK_RATIO == DECIMAL_ONE

CONTRACT == "cosmos2contract"
Users == {"creator", "bob", "alice"}
\* the accounts that hold tokens: they send Transfer, Bond and Unbond and receive
\* transfers (the owner and another holder)
Holders == {"creator", "bob"}
\* the account that holds nothing
Others == {"alice"}
InitSenders == {"creator"}
BOND_DENOM == "ustake"
OTHER_DENOM == "random"

\* the validator sets the host may report (address, commission %, max change rate %)
Val(a, c, r) == [address |-> a, commission |-> c, max_change_rate |-> r]
ValidatorSets ==
    { << Val("john", 1, 5), Val("default-validator", 2, 1) >> }
InitValidators == {"default-validator", "my-validator"}
ExitTaxes == {10, 50, 150}
MinWithdrawals == {2}

\* ----------------------------------------------------------------- state
VARIABLES
    ready,        \* init has succeeded: the singletons are written
    invest,       \* InvestmentInfo singleton
    supply,       \* Supply singleton
    balances,     \* bucket "balance": address -> Uint128, partial
    claims,       \* bucket "claim": address -> Uint128, partial
    delegations,  \* bucket "delegation": address -> DelegateInfo, partial
    delegators,   \* singleton "delegator": <<"none">> or <<"some", list>>
    validators,   \* host: the current validator set
    delegated,    \* host: total delegated by the contract
    free,         \* host: contract's free balance in the bonding denomination
    unbonding,    \* host: undelegated funds not yet returned to the free balance
    slashes,      \* host: how often the validator has been slashed
    outbox,       \* host: instructions of the last response still to execute
    last          \* the last handler call: its inputs and its response

vars == << ready, invest, supply, balances, claims, delegations, delegators,
           validators, delegated, free, unbonding, slashes, outbox, last >>

storeVars == << ready, invest, supply, balances, claims, delegations, delegators >>
hostVars == << validators, delegated, free, unbonding, slashes >>

\* ------------------------------------------------------------- storage
EmptyMap == [x \in {} |-> 0]

\* may_load(key).unwrap_or_default()
Get(m, k) == IF k \in DOMAIN m THEN m[k] ELSE 0

\* Bucket::save
Put(m, k, v) == [x \in DOMAIN m \cup {k} |-> IF x = k THEN v ELSE m[x]]

Store ==
    [ ready |-> ready, invest |-> invest, supply |-> supply, balances |-> balances,
      claims |-> claims, delegations |-> delegations, delegators |-> delegators ]

NoInvest ==
    [ owner |-> "", bond_denom |-> "", exit_tax |-> 0, validator |-> "",
      min_withdrawal |-> 0 ]

SupplyDefault == [issued |-> 0, bonded |-> 0, claims |-> 0]

\* ---------------------------------------------------------------- results
Ok(st, msgs) == [st |-> st, ok |-> TRUE, err |-> "", msgs |-> msgs]
Err(st, e) == [st |-> st, ok |-> FALSE, err |-> e, msgs |-> << >>]

E_UNDERFLOW == "Underflow"
E_UNAUTHORIZED == "Unauthorized"
E_NO_VALIDATOR == "is not in the current validator set"
E_NO_TOKENS == "No ustake tokens sent"
E_MIN_UNBOND == "Must unbond at least"
E_BONDED == "Stored bonded, but query bonded"
E_PANIC == "panic"

\* ------------------------------------------------------------ arithmetic
\* Uint128 * Decimal
MulDecimal(a, d) == (a * d) \div DECIMAL_ONE

\* Uint128::multiply_ratio (the denominator is not zero where it is used)
multiply_ratio(a, nom, denom) == (a * nom) \div denom

\* ------------------------------------------------------------- messages
Msg(t, v, a, r, m) == [type |-> t, validator |-> v, amount |-> a, recipient |-> r, msg |-> m]
Delegate(v, a) == Msg("Delegate", v, a, "", "")
Undelegate(v, a) == Msg("Undelegate", v, a, "", "")
Withdraw(v, r) == Msg("Withdraw", v, 0, r, "")
Execute(c, m) == Msg("Execute", "", 0, c, m)

Coin(a, d) == [denom |-> d, amount |-> a]

\* ----------------------------------------------------------------- init
\* mutant: the validator is not looked up
init_validator_any(vals, validator) == TRUE

\* vals.iter().any(|v| v.address == msg.validator)
init_validator_known(vals, validator) ==
    \E i \in 1..Len(vals) : vals[i].address = validator

init(st, vals, info, msg) ==
    IF ~ init_validator_known(vals, msg.validator)
    THEN Err(st, E_NO_VALIDATOR)
    ELSE Ok([st EXCEPT
                !.ready = TRUE,
                !.invest = [ owner |-> info.sender,
                             exit_tax |-> msg.exit_tax,
                             bond_denom |-> BOND_DENOM,
                             validator |-> msg.validator,
                             min_withdrawal |-> msg.min_withdrawal ],
                !.supply = SupplyDefault],
            << >>)

\* ------------------------------------------------------------- transfer
\* mutant: the debit is not checked
transfer_debit_unchecked(balance, send) == TRUE

\* balance.unwrap_or_default() - send
transfer_debit_ok(balance, send) == send <= balance

\* mutant: the credit is computed from the recipient's balance before the debit
transfer_stale_credit(st, info, recipient, send) ==
    LET sender_balance == Get(st.balances, info.sender) IN
    IF ~ transfer_debit_ok(sender_balance, send)
    THEN Err(st, E_UNDERFLOW)
    ELSE LET debited == Put(st.balances, info.sender, sender_balance - send)
             credited == Put(debited, recipient, Get(st.balances, recipient) + send)
         IN Ok([st EXCEPT !.balances = credited], << >>)

transfer(st, info, recipient, send) ==
    LET sender_balance == Get(st.balances, info.sender) IN
    IF ~ transfer_debit_ok(sender_balance, send)
    THEN Err(st, E_UNDERFLOW)
    ELSE LET debited == Put(st.balances, info.sender, sender_balance - send)
             credited == Put(debited, recipient, Get(debited, recipient) + send)
         IN Ok([st EXCEPT !.balances = credited], << >>)

\* ----------------------------------------------------------------- bond
\* the total the host reports as delegated by the contract
get_bonded(host_delegated) == host_delegated

\* mutant: the stored and the queried total are not compared
assert_bonds_unchecked(sup, bonded) == TRUE

assert_bonds(sup, bonded) == sup.bonded = bonded

\* mutant: the first coin is taken, whatever its denomination
find_payment_first(funds, denom) ==
    IF funds = << >> THEN << >> ELSE << Head(funds) >>

\* info.sent_funds.iter().find(|x| x.denom == invest.bond_denom)
RECURSIVE find_payment(_, _)
find_payment(funds, denom) ==
    IF funds = << >> THEN << >>
    ELSE IF Head(funds).denom = denom THEN << Head(funds) >>
    ELSE find_payment(Tail(funds), denom)

\* mutant: the rate is applied upside down
bond_to_mint_inverted(sup, bonded, amount) ==
    IF sup.issued = 0 \/ bonded = 0
    THEN MulDecimal(amount, FALLBACK_RATIO)
    ELSE multiply_ratio(amount, bonded, sup.issued)

\* mutant: tokens are always minted one for one
bond_to_mint_one_to_one(sup, bonded, amount) == MulDecimal(amount, FALLBACK_RATIO)

\* mutant: the minted amount is rounded up
bond_to_mint_ceil(sup, bonded, amount) ==
    IF sup.issued = 0 \/ bonded = 0
    THEN MulDecimal(amount, FALLBACK_RATIO)
    ELSE (amount * sup.issued + bonded - 1) \div bonded

bond_to_mint(sup, bonded, amount) ==
    IF sup.issued = 0 \/ bonded = 0
    THEN MulDecimal(amount, FALLBACK_RATIO)
    ELSE multiply_ratio(amount, sup.issued, bonded)

\* mutant: the minted tokens are not counted as issued
bond_supply_not_issued(sup, bonded, amount, to_mint) ==
    [sup EXCEPT !.bonded = bonded + amount]

bond_supply(sup, bonded, amount, to_mint) ==
    [sup EXCEPT !.bonded = bonded + amount, !.issued = sup.issued + to_mint]

bond_messages(inv, payment) == << Delegate(inv.validator, payment.amount) >>

bond(st, host_delegated, info) ==
    LET found == find_payment(info.sent_funds, st.invest.bond_denom) IN
    IF found = << >> THEN Err(st, E_NO_TOKENS)
    ELSE
    LET payment == found[1]
        bonded == get_bonded(host_delegated)
    IN
    IF ~ assert_bonds(st.supply, bonded) THEN Err(st, E_BONDED)
    ELSE
    LET to_mint == bond_to_mint(st.supply, bonded, payment.amount)
        st1 == [st EXCEPT !.supply = bond_supply(st.supply, bonded, payment.amount, to_mint)]
        st2 == [st1 EXCEPT !.balances =
                    Put(st1.balances, info.sender, Get(st1.balances, info.sender) + to_mint)]
    IN Ok(st2, bond_messages(st.invest, payment))

\* --------------------------------------------------------------- unbond
\* let tax = amount * invest.exit_tax
unbond_tax(amount, inv) == MulDecimal(amount, inv.exit_tax)

\* mutant: the minimum itself is refused
unbond_too_small_le(amount, inv) == amount <= inv.min_withdrawal

\* amount < invest.min_withdrawal
unbond_too_small(amount, inv) == amount < inv.min_withdrawal

\* balance.unwrap_or_default() - amount
unbond_debit_ok(balance, amount) == amount <= balance

\* remainder.multiply_ratio(bonded, supply.issued)
unbond_amount(remainder, bonded, sup) == multiply_ratio(remainder, bonded, sup.issued)

\* mutant: the burnt derivative amount is taken from bonded, not its worth
unbond_supply_burnt(sup, bonded, remainder, unbond_) ==
    [sup EXCEPT !.bonded = bonded - remainder,
                !.issued = sup.issued - remainder,
                !.claims = sup.claims + unbond_]

\* mutant: the claim is not added to the supply's total
unbond_supply_no_claims(sup, bonded, remainder, unbond_) ==
    [sup EXCEPT !.bonded = bonded - unbond_,
                !.issued = sup.issued - remainder]

unbond_supply(sup, bonded, remainder, unbond_) ==
    [sup EXCEPT !.bonded = bonded - unbond_,
                !.issued = sup.issued - remainder,
                !.claims = sup.claims + unbond_]

\* mutant: the new claim replaces the sender's earlier one
unbond_claim_replaced(claim_, unbond_) == unbond_

\* claim.unwrap_or_default() + unbond
unbond_claim(claim_, unbond_) == claim_ + unbond_

\* mutant: the instruction names the owner instead of the validator
unbond_messages_to_owner(inv, unbond_) == << Undelegate(inv.owner, unbond_) >>

unbond_messages(inv, unbond_) == << Undelegate(inv.validator, unbond_) >>

unbond(st, host_delegated, info, amount) ==
    LET inv == st.invest IN
    IF unbond_too_small(amount, inv) THEN Err(st, E_MIN_UNBOND)
    ELSE
    LET tax == unbond_tax(amount, inv)
        sender_balance == Get(st.balances, info.sender)
    IN
    IF ~ unbond_debit_ok(sender_balance, amount) THEN Err(st, E_UNDERFLOW)
    ELSE
    LET debited == Put(st.balances, info.sender, sender_balance - amount)
        taxed == IF tax > 0
                 THEN Put(debited, inv.owner, Get(debited, inv.owner) + tax)
                 ELSE debited
        st1 == [st EXCEPT !.balances = taxed]
        bonded == get_bonded(host_delegated)
    IN
    \* let remainder = (amount - tax)?
    IF tax > amount THEN Err(st1, E_UNDERFLOW)
    ELSE
    LET remainder == amount - tax IN
    IF ~ assert_bonds(st1.supply, bonded) THEN Err(st1, E_BONDED)
    \* multiply_ratio panics on a zero denominator
    ELSE IF st1.supply.issued = 0 THEN Err(st1, E_PANIC)
    ELSE
    LET unbond_ == unbond_amount(remainder, bonded, st1.supply) IN
    \* (bonded - unbond)? and (supply.issued - remainder)?
    IF unbond_ > bonded \/ remainder > st1.supply.issued THEN Err(st1, E_UNDERFLOW)
    ELSE
    LET st2 == [st1 EXCEPT !.supply = unbond_supply(st1.supply, bonded, remainder, unbond_)]
        st3 == [st2 EXCEPT !.claims =
                    Put(st2.claims, info.sender,
                        unbond_claim(Get(st2.claims, info.sender), unbond_))]
    IN Ok(st3, unbond_messages(inv, unbond_))

\* ---------------------------------------------------------------- claim
\* a record of the delegation bucket
DelegateInfo(delegator, validator, amount, unbond_flag, undelegate_reward) ==
    [ delegator |-> delegator, validator |-> validator, amount |-> amount,
      last_delegate_height |-> 0, unbond_flag |-> unbond_flag,
      undelegate_reward |-> undelegate_reward ]

\* query_all_delegations: the record of every listed delegator, in list order
\* (every listed address has a record where this is used)
query_all_delegations(st) ==
    [i \in 1..Len(st.delegators.list) |-> st.delegations[st.delegators.list[i]]]

\* total_amount += delegation.amount, over the records of the caller's validator
RECURSIVE SumAmounts(_)
SumAmounts(records) ==
    IF records = << >> THEN 0
    ELSE Head(records).amount + SumAmounts(Tail(records))

\* mutant: the share is rounded up
claim_share_ceil(reward, amount, total_amount) ==
    (reward * amount + total_amount - 1) \div total_amount

\* reward.multiply_ratio(delegation.amount, total_amount)
claim_share(reward, amount, total_amount) == multiply_ratio(reward, amount, total_amount)

\* all_delegations.iter().filter(|delegation| delegation.validator == validator_addr)
claim_of_val(records, validator_addr) ==
    LET OfVal(d) == d.validator = validator_addr IN SelectSeq(records, OfVal)

\* mutant: the update clears the unbond flag as well
claim_update_resets_flag(info, share) ==
    [info EXCEPT !.undelegate_reward = share, !.unbond_flag = FALSE]

\* the closure given to delegations.update
claim_update(info, share) == [info EXCEPT !.undelegate_reward = share]

\* mutant: the caller is not checked
claim_anyone(info) == FALSE

\* info.sender != env.contract.address
claim_unauthorized(info) == info.sender # CONTRACT

\* the update loop: one bucket update per record, keyed by the record's
\* delegator; delegate_info.unwrap() panics when that key holds no record, after
\* the earlier updates were saved
RECURSIVE claim_split(_, _, _, _)
claim_split(records, dels, reward, total_amount) ==
    IF records = << >> THEN [ok |-> TRUE, dels |-> dels]
    ELSE LET delegation == Head(records)
             key == delegation.delegator
         IN IF key \notin DOMAIN dels THEN [ok |-> FALSE, dels |-> dels]
            ELSE claim_split(Tail(records),
                             [dels EXCEPT ![key] =
                                 claim_update(dels[key],
                                     claim_share(reward, delegation.amount, total_amount))],
                             reward, total_amount)

claim(st, host_free, info) ==
    \* query_delegation(deps, address).unwrap()
    IF info.sender \notin DOMAIN st.delegations THEN Err(st, E_PANIC)
    \* query_all_delegators(deps).unwrap(), and query_delegation(..).unwrap() of each
    ELSE IF ~ st.delegators.saved THEN Err(st, E_PANIC)
    ELSE IF \E i \in 1..Len(st.delegators.list) :
                st.delegators.list[i] \notin DOMAIN st.delegations
         THEN Err(st, E_PANIC)
    ELSE
    LET validator_addr == st.delegations[info.sender].validator
        delegations_of_val == claim_of_val(query_all_delegations(st), validator_addr)
        total_amount == SumAmounts(delegations_of_val)
    IN
    IF claim_unauthorized(info) THEN Err(st, E_UNAUTHORIZED)
    \* (balance.amount - total_amount).unwrap()
    ELSE IF total_amount > host_free THEN Err(st, E_PANIC)
    \* multiply_ratio panics on a zero denominator, in the first update
    ELSE IF delegations_of_val # << >> /\ total_amount = 0 THEN Err(st, E_PANIC)
    ELSE
    LET split == claim_split(delegations_of_val, st.delegations,
                             host_free - total_amount, total_amount)
        st1 == [st EXCEPT !.delegations = split.dels]
    IN IF split.ok THEN Ok(st1, << >>) ELSE Err(st1, E_PANIC)

\* -------------------------------------------------------------- reinvest
\* mutant: the callback is queued before the withdrawal
reinvest_messages_swapped(inv) ==
    << Execute(CONTRACT, "_bond_all_tokens"), Withdraw(inv.validator, CONTRACT) >>

\* mutant: the callback is left out of the response
reinvest_messages_no_callback(inv) == << Withdraw(inv.validator, CONTRACT) >>

reinvest_messages(inv) ==
    << Withdraw(inv.validator, CONTRACT), Execute(CONTRACT, "_bond_all_tokens") >>

\* mutant: the handler saves InvestmentInfo with the sender as owner
reinvest_saves_invest(st, info) ==
    Ok([st EXCEPT !.invest.owner = info.sender], reinvest_messages(st.invest))

reinvest(st, info) == Ok(st, reinvest_messages(st.invest))

\* ------------------------------------------------------ _bond_all_tokens
\* mutant: the caller is not checked
bond_all_anyone(info) == FALSE

\* info.sender != env.contract.address
bond_all_unauthorized(info) == info.sender # CONTRACT

\* mutant: the remainder is not compared with min_withdrawal
bond_all_update_no_min(sup, inv, balance) ==
    IF sup.claims > balance THEN << "underflow" >>
    ELSE LET amount == balance - sup.claims IN
         << "ok", [sup EXCEPT !.bonded = sup.bonded + amount], amount >>

\* mutant: the whole balance is bonded, the claims included
bond_all_update_whole_balance(sup, inv, balance) ==
    IF sup.claims > balance THEN << "underflow" >>
    ELSE LET amount == balance - sup.claims IN
         IF inv.min_withdrawal > amount THEN << "underflow" >>
         ELSE << "ok", [sup EXCEPT !.bonded = sup.bonded + balance], balance >>

\* mutant: the outstanding claims are not deducted from the balance
bond_all_update_no_claims(sup, inv, balance) ==
    IF inv.min_withdrawal > balance THEN << "underflow" >>
    ELSE << "ok", [sup EXCEPT !.bonded = sup.bonded + balance], balance >>

\* the closure given to total_supply.update: <<"ok", supply, amount>> or <<"underflow">>
bond_all_update(sup, inv, balance) ==
    IF sup.claims > balance THEN << "underflow" >>
    ELSE LET amount == balance - sup.claims IN
         IF inv.min_withdrawal > amount THEN << "underflow" >>
         ELSE << "ok", [sup EXCEPT !.bonded = sup.bonded + amount], amount >>

bond_all_messages(inv, amount) == << Delegate(inv.validator, amount) >>

_bond_all_tokens(st, host_free, info) ==
    IF bond_all_unauthorized(info) THEN Err(st, E_UNAUTHORIZED)
    ELSE
    LET upd == bond_all_update(st.supply, st.invest, host_free) IN
    IF upd[1] = "underflow" THEN Ok(st, << >>)
    ELSE Ok([st EXCEPT !.supply = upd[2]], bond_all_messages(st.invest, upd[3]))

\* ----------------------------------------------------- select_validator
Commission(v) == v.commission
ChangeRate(v) == v.max_change_rate

\* Iterator::min_by_key: of several equally minimum elements, the first
min_by_key(seq, keys) ==
    seq[CHOOSE i \in 1..Len(seq) :
            \A j \in 1..Len(seq) :
                \/ keys[i] < keys[j]
                \/ keys[i] = keys[j] /\ i <= j]

\* mutant: the smallest max-change-rate wins, whatever the commission
select_validator_by_rate(vals) ==
    min_by_key(vals, [i \in 1..Len(vals) |-> ChangeRate(vals[i])])

\* defined for a non-empty validator set (both unwraps panic on an empty one)
select_validator(vals) ==
    LET min_commission ==
            min_by_key(vals, [i \in 1..Len(vals) |-> Commission(vals[i])]).commission
        HasMin(v) == v.commission = min_commission
        lowest == SelectSeq(vals, HasMin)
    IN min_by_key(lowest, [i \in 1..Len(lowest) |-> ChangeRate(lowest[i])])

\* ---------------------------------------------------------------- query
\* Decimal::from_ratio, to the precision Decimal has here (whole percents)
from_ratio(nominator, denominator) == (nominator * DECIMAL_ONE) \div denominator

\* mutant: the ratio is taken upside down
nominal_value_inverted(sup) ==
    IF sup.issued = 0 THEN FALLBACK_RATIO
    ELSE IF sup.bonded = 0 THEN 0
    ELSE from_ratio(sup.issued, sup.bonded)

nominal_value(sup) ==
    IF sup.issued = 0 THEN FALLBACK_RATIO ELSE from_ratio(sup.bonded, sup.issued)

\* takes the storage read-only and returns the response
query_investment(st) ==
    [ owner |-> st.invest.owner,
      exit_tax |-> st.invest.exit_tax,
      validator |-> st.invest.validator,
      min_withdrawal |-> st.invest.min_withdrawal,
      token_supply |-> st.supply.issued,
      staked_tokens |-> Coin(st.supply.bonded, st.invest.bond_denom),
      nominal_value |-> nominal_value(st.supply) ]

\* ------------------------------------------------------------- the run
Info(sender, funds) == [sender |-> sender, sent_funds |-> funds]

\* the funds a Bond may carry
Funds ==
    { << Coin(1, OTHER_DENOM) >>, << Coin(1, OTHER_DENOM), Coin(1, BOND_DENOM) >> }
    \cup { << Coin(p, BOND_DENOM) >> : p \in 1..MaxPay }

RECURSIVE SumDenom(_, _)
SumDenom(funds, denom) ==
    IF funds = << >> THEN 0
    ELSE (IF Head(funds).denom = denom THEN Head(funds).amount ELSE 0)
         + SumDenom(Tail(funds), denom)

HostTotal == free + delegated + unbonding

RECURSIVE SumOver(_, _)
SumOver(m, keys) ==
    IF keys = {} THEN 0
    ELSE LET k == CHOOSE x \in keys : TRUE IN m[k] + SumOver(m, keys \ {k})

\* the sum of all entries of a bucket
Total(m) == SumOver(m, DOMAIN m)

NoCall ==
    [ op |-> "none", sender |-> "", amount |-> 0, recipient |-> "", funds |-> << >>,
      ok |-> TRUE, err |-> "", msgs |-> << >> ]

\* the record of a handler call that returned r
Call(op, sender, amount, recipient, funds, r) ==
    [ op |-> op, sender |-> sender, amount |-> amount, recipient |-> recipient,
      funds |-> funds, ok |-> r.ok, err |-> r.err, msgs |-> r.msgs ]

\* the record of a query that returned the response r
Answer(op, r) ==
    [ op |-> op, sender |-> "", amount |-> 0, recipient |-> "", funds |-> << >>,
      ok |-> TRUE, err |-> "", msgs |-> << >>, response |-> r ]

\* the storage a handler leaves behind
Written(r) ==
    /\ ready' = r.st.ready
    /\ invest' = r.st.invest
    /\ supply' = r.st.supply
    /\ balances' = r.st.balances
    /\ claims' = r.st.claims
    /\ delegations' = r.st.delegations
    /\ delegators' = r.st.delegators

Init ==
    /\ ready = FALSE
    /\ invest = NoInvest
    /\ supply = SupplyDefault
    /\ balances = EmptyMap
    /\ claims = EmptyMap
    /\ delegations = EmptyMap
    /\ delegators = [saved |-> FALSE, list |-> << >>]
    /\ validators \in ValidatorSets
    /\ delegated = 0
    /\ free = 0
    /\ unbonding = 0
    /\ slashes = 0
    /\ outbox = << >>
    /\ last = NoCall

\* the host delivers a message only between transactions
Idle == ready /\ outbox = << >>

\* init with an exit tax of the given set
DoInitWith(taxes) ==
    /\ ~ ready
    /\ \E sender \in InitSenders, v \in InitValidators, t \in taxes, m \in MinWithdrawals :
         LET msg == [validator |-> v, exit_tax |-> t, min_withdrawal |-> m]
             r == init(Store, validators, Info(sender, << >>), msg)
         IN /\ Written(r)
            /\ last' = Call("init", sender, 0, "", << >>, r)
            /\ outbox' = r.msgs
    /\ UNCHANGED hostVars

DoInit == DoInitWith(ExitTaxes)

DoTransfer ==
    /\ Idle
    /\ \E sender \in Holders, recipient \in Holders, send \in 1..MaxSend :
         LET r == transfer(Store, Info(sender, << >>), recipient, send)
         IN /\ Written(r)
            /\ last' = Call("transfer", sender, send, recipient, << >>, r)
            /\ outbox' = r.msgs
    /\ UNCHANGED hostVars

\* the attached funds reach the contract's account with the call, and go back
\* with a failed one
DoBond ==
    /\ Idle
    /\ \E sender \in Holders, funds \in Funds :
         LET r == bond(Store, delegated, Info(sender, funds))
             paid == SumDenom(funds, BOND_DENOM)
         IN /\ HostTotal + paid <= MaxTotal
            /\ Written(r)
            /\ last' = Call("bond", sender, 0, "", funds, r)
            /\ outbox' = r.msgs
            /\ free' = IF r.ok THEN free + paid ELSE free
    /\ UNCHANGED << validators, delegated, unbonding, slashes >>

DoUnbond ==
    /\ Idle
    /\ \E sender \in Holders, amount \in 0..MaxUnbond :
         LET r == unbond(Store, delegated, Info(sender, << >>), amount)
         IN /\ Total(r.st.balances) <= MaxTokens
            /\ Written(r)
            /\ last' = Call("unbond", sender, amount, "", << >>, r)
            /\ outbox' = r.msgs
    /\ UNCHANGED hostVars

DoClaim ==
    /\ Idle
    /\ \E sender \in Users :
         LET r == claim(Store, free, Info(sender, << >>))
         IN /\ Written(r)
            /\ last' = Call("claim", sender, 0, "", << >>, r)
            /\ outbox' = r.msgs
    /\ UNCHANGED hostVars

DoReinvest ==
    /\ Idle
    /\ \E sender \in Users :
         LET r == reinvest(Store, Info(sender, << >>))
         IN /\ Written(r)
            /\ last' = Call("reinvest", sender, 0, "", << >>, r)
            /\ outbox' = r.msgs
    /\ UNCHANGED hostVars

\* _BondAllTokens sent by an ordinary account
DoBondAllTokens ==
    /\ Idle
    /\ \E sender \in Users :
         LET r == _bond_all_tokens(Store, free, Info(sender, << >>))
         IN /\ Written(r)
            /\ last' = Call("_bond_all_tokens", sender, 0, "", << >>, r)
            /\ outbox' = r.msgs
    /\ UNCHANGED hostVars

\* QueryMsg::Investment: the storage is borrowed read-only
DoQueryInvestment ==
    /\ Idle
    /\ last' = Answer("query_investment", query_investment(Store))
    /\ UNCHANGED << storeVars, hostVars, outbox >>

\* ----------------------------------------------------------------- host
Pending(t) == ready /\ outbox # << >> /\ Head(outbox).type = t

HostDelegate ==
    /\ Pending("Delegate")
    /\ free' = free - Head(outbox).amount
    /\ delegated' = delegated + Head(outbox).amount
    /\ outbox' = Tail(outbox)
    /\ UNCHANGED << storeVars, validators, unbonding, slashes, last >>

HostUndelegate ==
    /\ Pending("Undelegate")
    /\ delegated' = delegated - Head(outbox).amount
    /\ unbonding' = unbonding + Head(outbox).amount
    /\ outbox' = Tail(outbox)
    /\ UNCHANGED << storeVars, validators, free, slashes, last >>

\* the rewards paid out are whatever has accrued
HostWithdraw ==
    /\ Pending("Withdraw")
    /\ \E reward \in 0..MaxReward :
         /\ HostTotal + reward <= MaxTotal
         /\ free' = free + reward
    /\ outbox' = Tail(outbox)
    /\ UNCHANGED << storeVars, validators, delegated, unbonding, slashes, last >>

\* the self-addressed message: the contract is the sender, and the instructions
\* of its response run before the rest of the batch
HostExecute ==
    /\ Pending("Execute")
    /\ LET r == _bond_all_tokens(Store, free, Info(Head(outbox).recipient, << >>))
       IN /\ Written(r)
          /\ last' = Call("_bond_all_tokens", Head(outbox).recipient, 0, "", << >>, r)
          /\ outbox' = r.msgs \o Tail(outbox)
    /\ UNCHANGED hostVars

\* the unbonding period of the funds in flight ends
HostRelease ==
    /\ Idle
    /\ unbonding > 0
    /\ free' = free + unbonding
    /\ unbonding' = 0
    /\ UNCHANGED << storeVars, validators, delegated, slashes, outbox, last >>

\* the validator is slashed: the delegation shrinks outside the contract's control
HostSlash ==
    /\ Idle
    /\ delegated > 0
    /\ slashes < MaxSlash
    /\ delegated' = delegated - 1
    /\ slashes' = slashes + 1
    /\ UNCHANGED << storeVars, validators, free, unbonding, outbox, last >>

Handlers ==
    \/ DoInit
    \/ DoTransfer
    \/ DoBond
    \/ DoUnbond
    \/ DoClaim
    \/ DoReinvest
    \/ DoBondAllTokens

HostSteps ==
    \/ HostDelegate
    \/ HostUndelegate
    \/ HostWithdraw
    \/ HostExecute
    \/ HostRelease

Next == Handlers \/ HostSteps \/ HostSlash

Spec == Init /\ [][Next]_vars

\* the host applies the contract's instructions, and nothing else touches the
\* delegation total
NextHost == Handlers \/ HostSteps

SpecHost == Init /\ [][NextHost]_vars

\* exit taxes of at most the whole amount: a half, and Decimal::one()
TaxesUpToOne == {50, DECIMAL_ONE}

\* init with an exit tax of at most one
DoInitTaxed == DoInitWith(TaxesUpToOne)

\* the contract set up with an exit tax of at most one, the host and slashes
NextTaxed ==
    \/ DoInitTaxed
    \/ DoTransfer
    \/ DoBond
    \/ DoUnbond
    \/ DoClaim
    \/ DoReinvest
    \/ DoBondAllTokens
    \/ HostSteps
    \/ HostSlash

SpecTaxed == Init /\ [][NextTaxed]_vars

\* the validator sets the host may report later on: the one of Init, and one
\* that the validator of Init has left
LaterValidatorSets ==
    ValidatorSets \cup { << Val("john", 1, 5), Val("mary", 2, 1) >> }

\* the host's validator set changes
HostValidators ==
    /\ validators' \in LaterValidatorSets \ {validators}
    /\ UNCHANGED << storeVars, delegated, free, unbonding, slashes, outbox, last >>

NextValidators == NextHost \/ HostValidators

SpecValidators == Init /\ [][NextValidators]_vars

\* ------------------------------------------- select_validator on its own
ValidatorNames == {"john", "mary", "my-validator"}

ValidatorPool ==
    { Val(a, c, r) : a \in ValidatorNames, c \in 1..MaxCommission, r \in 1..MaxRate }

\* the non-empty validator sets the host may present: no address twice
SelectInputs ==
    { vals \in UNION { [1..n -> ValidatorPool] : n \in 1..Cardinality(ValidatorNames) } :
        \A i, j \in 1..Len(vals) : vals[i].address = vals[j].address => i = j }

InitSelect ==
    /\ ready = FALSE
    /\ invest = NoInvest
    /\ supply = SupplyDefault
    /\ balances = EmptyMap
    /\ claims = EmptyMap
    /\ delegations = EmptyMap
    /\ delegators = [saved |-> FALSE, list |-> << >>]
    /\ validators \in SelectInputs
    /\ delegated = 0
    /\ free = 0
    /\ unbonding = 0
    /\ slashes = 0
    /\ outbox = << >>
    /\ last = NoCall

DoSelectValidator ==
    /\ last' = Answer("select_validator", select_validator(validators))
    /\ UNCHANGED << storeVars, hostVars, outbox >>

\* the host presents the same validators in another order
HostReorder ==
    /\ \E f \in Permutations(1..Len(validators)) :
         validators' = [i \in 1..Len(validators) |-> validators[f[i]]]
    /\ UNCHANGED << storeVars, delegated, free, unbonding, slashes, outbox, last >>

NextSelect == DoSelectValidator \/ HostReorder

SpecSelect == InitSelect /\ [][NextSelect]_vars

\* ------------------------------------------------ the delegator records
\* The per-delegator records and the delegator registry are read and updated
\* by claim; the steps that create a record, flag it and settle it are those of
\* the per-delegator state machine NoPosition -> Bonded -> UnbondRequested ->
\* Settled.
DelegatorAddrs == {"bob", "alice", CONTRACT}
\* the validators a delegator may be assigned to: the contract's own record is on
\* the validator of InvestmentInfo, alice's on another, bob's on either
DelegatorValidators(a) ==
    IF a = CONTRACT THEN {"default-validator"}
    ELSE IF a = "alice" THEN {"john"}
    ELSE {"default-validator", "john"}

\* the senders of Claim: one with no record, one with a record, the contract
ClaimSenders == {"creator", "bob", CONTRACT}

\* mutant: the new address is put in front
delegators_prepend(list, addr) == << addr >> \o list

\* delegator_list.append(&mut vec![addr])
delegators_append(list, addr) == Append(list, addr)

InitDelegators ==
    /\ ready = TRUE
    /\ invest = [ owner |-> "creator", bond_denom |-> BOND_DENOM, exit_tax |-> 10,
                  validator |-> "default-validator", min_withdrawal |-> 2 ]
    /\ supply = SupplyDefault
    /\ balances = EmptyMap
    /\ claims = EmptyMap
    /\ delegations = EmptyMap
    /\ delegators = [saved |-> FALSE, list |-> << >>]
    /\ validators \in ValidatorSets
    /\ delegated = 0
    /\ free = 0
    /\ unbonding = 0
    /\ slashes = 0
    /\ outbox = << >>
    /\ last = NoCall

\* NoPosition -> Bonded: the first bond of a delegator creates its record and
\* appends it to the registry
DelegatorFirstBond ==
    /\ \E a \in DelegatorAddrs \ DOMAIN delegations, p \in 1..MaxAmount :
       \E v \in DelegatorValidators(a) :
         /\ delegations' = Put(delegations, a, DelegateInfo(a, v, p, FALSE, 0))
         /\ delegators' = [saved |-> TRUE, list |-> delegators_append(delegators.list, a)]
    /\ UNCHANGED << ready, invest, supply, balances, claims, hostVars, outbox, last >>

\* Bonded -> Bonded: a repeated bond adds to the recorded amount
DelegatorBondMore ==
    /\ \E a \in DOMAIN delegations, p \in 1..MaxAmount :
         /\ ~ delegations[a].unbond_flag
         /\ delegations[a].amount + p <= MaxAmount
         /\ delegations' = [delegations EXCEPT ![a].amount = @ + p]
    /\ UNCHANGED << ready, invest, supply, balances, claims, delegators, hostVars,
                    outbox, last >>

\* Bonded -> UnbondRequested: the delegator asks to unbond
DelegatorUnbondRequest ==
    /\ \E a \in DOMAIN delegations :
         /\ ~ delegations[a].unbond_flag
         /\ delegations' = [delegations EXCEPT ![a].unbond_flag = TRUE]
    /\ UNCHANGED << ready, invest, supply, balances, claims, delegators, hostVars,
                    outbox, last >>

\* UnbondRequested -> Settled: the unbond completes; amount and reward are zeroed
DelegatorUnbondComplete ==
    /\ \E a \in DOMAIN delegations :
         /\ delegations[a].unbond_flag
         /\ delegations[a].amount > 0
         /\ delegations' = [delegations EXCEPT ![a].amount = 0,
                                               ![a].undelegate_reward = 0]
    /\ UNCHANGED << ready, invest, supply, balances, claims, delegators, hostVars,
                    outbox, last >>

\* the contract's account receives base tokens
HostDeposit ==
    /\ free < MaxFree
    /\ free' = free + 1
    /\ UNCHANGED << storeVars, validators, delegated, unbonding, slashes, outbox, last >>

\* HandleMsg::Claim from any account, the contract's own included
DoClaimAs ==
    /\ \E sender \in ClaimSenders :
         LET r == claim(Store, free, Info(sender, << >>))
         IN /\ Written(r)
            /\ last' = Call("claim", sender, 0, "", << >>, r)
            /\ outbox' = r.msgs
    /\ UNCHANGED hostVars

NextDelegators ==
    \/ DelegatorFirstBond
    \/ DelegatorBondMore
    \/ DelegatorUnbondRequest
    \/ DelegatorUnbondComplete
    \/ HostDeposit
    \/ DoClaimAs

SpecDelegators == InitDelegators /\ [][NextDelegators]_vars

\* the contract with a faithful host, and the Investment query
NextQuery == NextHost \/ DoQueryInvestment

SpecQuery == Init /\ [][NextQuery]_vars

\* ================================================================ claims
\* the steps that are a call of one handler, as the call record tells
BondStep == outbox = << >> /\ last'.op = "bond" /\ DoBond
UnbondStep == outbox = << >> /\ last'.op = "unbond" /\ DoUnbond
TransferStep == outbox = << >> /\ last'.op = "transfer" /\ DoTransfer
BondAllTokensStep == outbox = << >> /\ last'.op = "_bond_all_tokens" /\ DoBondAllTokens
SelfBondAllTokensStep == outbox # << >> /\ last'.op = "_bond_all_tokens" /\ HostExecute

\* the amount a Bond pays in the bonding denomination
Paid(call) == SumDenom(call.funds, BOND_DENOM)

\* C1: after init and any sequence of operations, successful or failed, the
\* balances of the balance bucket sum to Supply.issued.
C1_BalancesSumToIssued == ready => Total(balances) = supply.issued

\* C1, restricted: an operation that succeeds keeps the sum equal to Supply.issued.
C1_SuccessKeepsSum ==
    [][(last'.ok /\ Total(balances) = supply.issued /\ Handlers)
          => Total(balances') = supply'.issued]_vars

\* C2: when the host applies every Delegate and Undelegate and nothing else
\* changes the delegation total, then after a successful Bond, Unbond or
\* _BondAllTokens whose instructions the host has executed, Supply.bonded is the
\* host's delegation total.
C2_BondedIsDelegated ==
    ( /\ last.op \in {"bond", "unbond", "_bond_all_tokens"}
      /\ last.ok
      /\ outbox = << >> )
    => supply.bonded = delegated

C2_Witness ==
    /\ last.op = "unbond"
    /\ last.ok
    /\ outbox = << >>
    /\ last.msgs[1].amount > 0
    /\ delegated > 0

\* C3: a successful Bond paying p mints m = p when Supply.issued or the queried
\* bonded total is 0 and m = floor(p * issued / bonded) otherwise, sets
\* Supply.bonded to bonded + p, adds m to Supply.issued and to the sender's
\* balance, and emits exactly one Delegate for p.
C3_BondMints ==
    [][(last'.ok /\ BondStep) =>
        LET p == Paid(last')
            m == IF supply.issued = 0 \/ delegated = 0
                 THEN p
                 ELSE (p * supply.issued) \div delegated
        IN /\ supply'.bonded = delegated + p
           /\ supply'.issued = supply.issued + m
           /\ supply'.claims = supply.claims
           /\ Get(balances', last'.sender) = Get(balances, last'.sender) + m
           /\ last'.msgs = << Delegate(invest.validator, p) >>
           /\ outbox' = last'.msgs
      ]_vars

\* a Bond from a state with a rate other than 1 has minted fewer tokens than paid
C3_Witness ==
    /\ last.op = "bond"
    /\ last.ok
    /\ outbox # << >>
    /\ supply.issued > 0
    /\ Get(balances, last.sender) < Paid(last)

\* C4 as stated: a successful Bond from a state with Supply.issued and
\* Supply.bonded both non-zero leaves the ratio issued / bonded as it was.
C4_RatioConstant ==
    [][(last'.ok /\ supply.issued > 0 /\ supply.bonded > 0 /\ BondStep)
          => supply'.issued * supply.bonded = supply.issued * supply'.bonded]_vars

\* C4, amended: such a Bond never raises issued / bonded, lowers it by less than
\* one minted token's worth (issued * bonded' - issued' * bonded is the remainder
\* of p * issued divided by bonded), and keeps it exactly when bonded divides
\* p * issued.
C4_RatioUpToRounding ==
    [][(last'.ok /\ supply.issued > 0 /\ supply.bonded > 0 /\ BondStep) =>
        LET p == Paid(last')
            loss == supply.issued * supply'.bonded - supply'.issued * supply.bonded
        IN /\ loss = (p * supply.issued) % supply.bonded
           /\ 0 <= loss
           /\ loss < supply.bonded
      ]_vars

\* a Bond that found issued and bonded non-zero and could not keep the ratio:
\* the payment bought no token
C4_Witness ==
    /\ last.op = "bond"
    /\ last.ok
    /\ supply.bonded > Paid(last)
    /\ supply.issued > Get(balances, last.sender)
    /\ Get(balances, last.sender) = 0

\* what an Unbond of amount a is to do to the supply, the claims and the outbox
UnbondEffect(a, tax) ==
    LET remainder == a - tax
        u == (remainder * supply.bonded) \div supply.issued
    IN /\ supply'.claims = supply.claims + u
       /\ supply'.bonded = supply.bonded - u
       /\ supply'.issued = supply.issued - remainder
       /\ Get(claims', last'.sender) = Get(claims, last'.sender) + u
       /\ last'.msgs = << Undelegate(invest.validator, u) >>
       /\ outbox' = last'.msgs

\* C5 as stated: a successful Unbond of a with tax = floor(a * exit_tax) lowers
\* the sender's balance by a, raises the owner's balance by exactly tax, adds
\* u = floor((a - tax) * bonded / issued) to the sender's claim and Supply.claims,
\* takes u from Supply.bonded and a - tax from Supply.issued, and emits exactly
\* one Undelegate for u.
C5_UnbondAsStated ==
    [][(last'.ok /\ UnbondStep) =>
        LET a == last'.amount
            tax == (a * invest.exit_tax) \div 100
        IN /\ Get(balances', last'.sender) = Get(balances, last'.sender) - a
           /\ Get(balances', invest.owner) = Get(balances, invest.owner) + tax
           /\ UnbondEffect(a, tax)
      ]_vars

\* C5, amended: as stated when the sender is not the owner; when the owner
\* unbonds, its balance changes by tax - a, the debit and the tax credit
\* falling on the same account.  No other balance changes.
C5_UnbondEffect ==
    [][(last'.ok /\ UnbondStep) =>
        LET a == last'.amount
            tax == (a * invest.exit_tax) \div 100
        IN /\ \A x \in Users :
                Get(balances', x) = Get(balances, x)
                                    - (IF x = last'.sender THEN a ELSE 0)
                                    + (IF x = invest.owner THEN tax ELSE 0)
           /\ UnbondEffect(a, tax)
      ]_vars

\* an Unbond by a holder other than the owner, taxed, at a rate other than 1
C5_Witness ==
    /\ last.op = "unbond"
    /\ last.ok
    /\ last.sender # invest.owner
    /\ outbox # << >>
    /\ (last.amount * invest.exit_tax) \div 100 > 0
    /\ last.msgs[1].amount > last.amount - (last.amount * invest.exit_tax) \div 100

\* the ledger and the supply are as the call found them
LedgerUnchanged == UNCHANGED << balances, claims, supply >>

\* C6: an Unbond of less than min_withdrawal fails and leaves every balance,
\* every claim and Supply unchanged, whatever the sender's balance; an Unbond of
\* exactly min_withdrawal is not rejected by this check.
C6_UnbondBelowMinimum ==
    [][UnbondStep =>
        /\ last'.amount < invest.min_withdrawal
              => ( /\ ~ last'.ok
                   /\ last'.err = E_MIN_UNBOND
                   /\ last'.msgs = << >>
                   /\ LedgerUnchanged )
        /\ last'.amount >= invest.min_withdrawal => last'.err # E_MIN_UNBOND
      ]_vars

\* an Unbond below the minimum by a holder who could have covered it
C6_Witness ==
    /\ last.op = "unbond"
    /\ last.err = E_MIN_UNBOND
    /\ 0 < last.amount
    /\ last.amount <= Get(balances, last.sender)

\* no entry of the balance bucket is negative (stated of the first state and of
\* the state every step leads to)
NoNegativeBalance == \A a \in DOMAIN balances : balances[a] >= 0

\* C7 as stated: a Transfer or Unbond of more than the sender's balance (a
\* missing entry counting as zero) fails with an underflow error and changes no
\* balance, claim or Supply field; no balance is ever negative.
C7_OverdraftAsStated ==
    /\ NoNegativeBalance
    /\ [][ /\ (last'.amount > Get(balances, last'.sender) /\ (TransferStep \/ UnbondStep))
                => ( /\ ~ last'.ok
                     /\ last'.err = E_UNDERFLOW
                     /\ LedgerUnchanged )
           /\ NoNegativeBalance' ]_vars

\* C7, amended: a Transfer, or an Unbond of at least min_withdrawal, of more
\* than the sender's balance fails with an underflow error; an Unbond below
\* min_withdrawal fails with the minimum-withdrawal error instead.  Either way
\* no balance, claim or Supply field changes, and no balance is ever negative.
C7_Overdraft ==
    /\ NoNegativeBalance
    /\ [][ /\ (last'.amount > Get(balances, last'.sender) /\ (TransferStep \/ UnbondStep))
                => ( /\ ~ last'.ok
                     /\ last'.err =
                           (IF last'.op = "unbond" /\ last'.amount < invest.min_withdrawal
                            THEN E_MIN_UNBOND ELSE E_UNDERFLOW)
                     /\ last'.msgs = << >>
                     /\ LedgerUnchanged )
           /\ NoNegativeBalance' ]_vars

\* an Unbond of at least the minimum by an account with no balance entry
C7_Witness ==
    /\ last.op = "unbond"
    /\ last.err = E_UNDERFLOW
    /\ last.amount >= invest.min_withdrawal
    /\ last.sender \notin DOMAIN balances
    /\ supply.issued >= last.amount

\* C8: _BondAllTokens from any sender other than the contract fails with
\* Unauthorized, emits nothing and changes no state, whatever the free balance.
C8_BondAllTokensUnauthorized ==
    [][BondAllTokensStep =>
        /\ ~ last'.ok
        /\ last'.err = E_UNAUTHORIZED
        /\ last'.msgs = << >>
        /\ outbox' = << >>
        /\ UNCHANGED << storeVars, hostVars >>
      ]_vars

\* a refused call made when there was enough free balance to reinvest
C8_Witness ==
    /\ last.op = "_bond_all_tokens"
    /\ last.sender \in Users
    /\ last.err = E_UNAUTHORIZED
    /\ free >= supply.claims + invest.min_withdrawal

\* the contract's own _BondAllTokens finds too little to reinvest
TooLittle == free < supply.claims \/ free - supply.claims < invest.min_withdrawal

\* C9: _BondAllTokens from the contract itself with a free balance below
\* Supply.claims, or less than min_withdrawal above it, returns success with no
\* instruction and leaves Supply unchanged.
C9_BondAllTokensNoOp ==
    [][(TooLittle /\ SelfBondAllTokensStep) =>
        /\ last'.ok
        /\ last'.msgs = << >>
        /\ outbox' = Tail(outbox)
        /\ UNCHANGED storeVars
      ]_vars

\* the contract's call found less than the claims it owes
C9_Witness ==
    /\ last.op = "_bond_all_tokens"
    /\ last.sender = CONTRACT
    /\ last.ok
    /\ last.msgs = << >>
    /\ 0 < free
    /\ free < supply.claims

\* C10: _BondAllTokens from the contract itself with r = free balance -
\* Supply.claims >= min_withdrawal adds exactly r to Supply.bonded, emits exactly
\* one Delegate for r, and leaves Supply.issued, Supply.claims, every balance and
\* every claim unchanged.
C10_BondAllTokensReinvests ==
    [][(~ TooLittle /\ SelfBondAllTokensStep) =>
        LET r == free - supply.claims
        IN /\ last'.ok
           /\ supply'.bonded = supply.bonded + r
           /\ supply'.issued = supply.issued
           /\ supply'.claims = supply.claims
           /\ last'.msgs = << Delegate(invest.validator, r) >>
           /\ outbox' = last'.msgs \o Tail(outbox)
           /\ UNCHANGED << balances, claims, invest, delegations, delegators >>
      ]_vars

\* a reinvestment made while claims were outstanding
C10_Witness ==
    /\ last.op = "_bond_all_tokens"
    /\ last.sender = CONTRACT
    /\ last.ok
    /\ Len(last.msgs) = 1
    /\ outbox = last.msgs
    /\ supply.claims > 0
    /\ supply.issued > 0

\* C11: funds owed to unbonders are never redeployed: whenever the host has
\* executed the instructions of a response, the free balance plus the
\* undelegated funds still in flight is at least Supply.claims, and the Delegate
\* emitted by _BondAllTokens leaves a free balance of at least Supply.claims.
C11_ClaimsCovered ==
    /\ free + unbonding >= supply.claims
    /\ [][ /\ outbox' = << >> => free' + unbonding' >= supply'.claims
           /\ ( /\ outbox # << >>
                /\ Head(outbox).type = "Delegate"
                /\ last.op = "_bond_all_tokens" )
              => free' >= supply'.claims
         ]_vars

\* a reinvestment was delegated while claims were outstanding and their funds
\* had come back: exactly the claims are left free
C11_Witness ==
    /\ last.op = "_bond_all_tokens"
    /\ last.sender = CONTRACT
    /\ Len(last.msgs) = 1
    /\ outbox = << >>
    /\ supply.claims > 0
    /\ unbonding = 0
    /\ free = supply.claims

ReinvestStep == outbox = << >> /\ last'.op = "reinvest" /\ DoReinvest

\* C12: Reinvest, from any sender, changes no contract state and returns exactly
\* two instructions in this order: a reward withdrawal from the configured
\* validator to the contract's own address, then an execute instruction to the
\* contract itself carrying _BondAllTokens with no funds attached.
C12_ReinvestTwoInstructions ==
    [][ReinvestStep =>
        /\ last'.ok
        /\ Len(last'.msgs) = 2
        /\ last'.msgs[1] = [ type |-> "Withdraw", validator |-> invest.validator,
                             amount |-> 0, recipient |-> CONTRACT, msg |-> "" ]
        /\ last'.msgs[2] = [ type |-> "Execute", validator |-> "", amount |-> 0,
                             recipient |-> CONTRACT, msg |-> "_bond_all_tokens" ]
        /\ outbox' = last'.msgs
        /\ UNCHANGED << storeVars, hostVars >>
      ]_vars

\* Reinvest triggered by a token holder while claims are outstanding
C12_Witness ==
    /\ last.op = "reinvest"
    /\ last.sender \in Holders
    /\ last.ok
    /\ outbox = last.msgs
    /\ supply.claims > 0

\* C13: between Reinvest and the end of its saga no other inbound operation is
\* processed: the host first executes the withdrawal, which leaves the storage
\* and the call record alone and only adds the rewards to the free balance, and
\* then the self-addressed _BondAllTokens, which runs with the contract as
\* sender, on the Supply Reinvest left and on the free balance the withdrawal
\* left.
C13_SagaNotInterleaved ==
    [][(last.op = "reinvest" /\ outbox # << >>) =>
        \/ /\ Head(outbox).type = "Withdraw"
           /\ last' = last
           /\ UNCHANGED storeVars
           /\ free' >= free
           /\ outbox' = << [ type |-> "Execute", validator |-> "", amount |-> 0,
                             recipient |-> CONTRACT, msg |-> "_bond_all_tokens" ] >>
        \/ /\ Head(outbox).type = "Execute"
           /\ Len(outbox) = 1
           /\ last'.op = "_bond_all_tokens"
           /\ last'.sender = CONTRACT
           /\ last'.ok
           /\ IF TooLittle
              THEN last'.msgs = << >> /\ supply' = supply
              ELSE /\ last'.msgs = << Delegate(invest.validator, free - supply.claims) >>
                   /\ supply' = [supply EXCEPT !.bonded = supply.bonded + free - supply.claims]
           /\ outbox' = last'.msgs
      ]_vars

\* the callback of a saga reinvested a free balance that can only have come from
\* the withdrawal: nothing was ever unbonded
C13_Witness ==
    /\ last.op = "_bond_all_tokens"
    /\ last.sender = CONTRACT
    /\ last.ok
    /\ Len(last.msgs) = 1
    /\ outbox = last.msgs
    /\ supply.claims = 0
    /\ unbonding = 0
    /\ supply.issued > 0

\* C14: a successful Transfer of x lowers the sender's balance by x and raises
\* the recipient's by x (a transfer to oneself leaves the balance as it was),
\* emits no instruction, and leaves Supply, every other balance and every claim
\* unchanged.
C14_TransferEffect ==
    [][(last'.ok /\ TransferStep) =>
        LET x == last'.amount IN
        /\ \A a \in Users \cup {CONTRACT} :
              Get(balances', a) = Get(balances, a)
                                  - (IF a = last'.sender THEN x ELSE 0)
                                  + (IF a = last'.recipient THEN x ELSE 0)
        /\ DOMAIN balances' \subseteq Users
        /\ last'.msgs = << >>
        /\ outbox' = << >>
        /\ UNCHANGED << supply, claims, invest, delegations, delegators, hostVars >>
      ]_vars

\* a holder has transferred tokens to itself
C14_Witness ==
    /\ last.op = "transfer"
    /\ last.ok
    /\ last.sender = last.recipient
    /\ last.amount > 0

\* C15: a Bond whose funds hold no coin of the bonding denomination fails with
\* the error naming that denomination; every failing Bond (wrong denomination or
\* bonded mismatch) leaves Supply and all balances unchanged and emits no
\* Delegate; and the amount a successful Bond mints depends on the coin of the
\* bonding denomination only, whatever other coins come with it.
C15_BondFailure ==
    [][BondStep =>
        /\ (\A i \in 1..Len(last'.funds) : last'.funds[i].denom # invest.bond_denom)
              => (~ last'.ok /\ last'.err = E_NO_TOKENS)
        /\ ~ last'.ok
              => ( /\ last'.err \in {E_NO_TOKENS, E_BONDED}
                   /\ last'.msgs = << >>
                   /\ outbox' = << >>
                   /\ UNCHANGED << storeVars, hostVars >> )
        /\ last'.ok
              => LET p == Paid(last') IN
                 /\ p > 0
                 /\ Get(balances', last'.sender) - Get(balances, last'.sender) =
                       (IF supply.issued = 0 \/ delegated = 0
                        THEN p ELSE (p * supply.issued) \div delegated)
                 /\ last'.msgs[1].amount = p
      ]_vars

\* a Bond carrying only a coin of another denomination was refused after tokens
\* had been issued
C15_Witness ==
    /\ last.op = "bond"
    /\ ~ last.ok
    /\ last.err = E_NO_TOKENS
    /\ last.funds # << >>
    /\ supply.issued > 0

\* the stored Supply.bonded differs from the delegation total the host reports
Mismatch == supply.bonded # delegated

\* C16 as stated: whenever the queried delegation total differs from the stored
\* Supply.bonded, Bond and Unbond fail with the inconsistency error and
\* Supply.bonded keeps its stored value.
C16_MismatchAsStated ==
    [][(Mismatch /\ (BondStep \/ UnbondStep)) =>
        /\ ~ last'.ok
        /\ last'.err = E_BONDED
        /\ supply'.bonded = supply.bonded
      ]_vars

\* C16, amended: under such a mismatch Bond and Unbond fail and Supply keeps its
\* stored value, so they keep failing while the two values differ; the error is
\* the inconsistency error unless an earlier check of the handler fails first
\* (Bond: no coin of the bonding denomination; Unbond: below min_withdrawal,
\* above the sender's balance, or taxed more than the amount).
C16_MismatchFails ==
    [][(Mismatch /\ (BondStep \/ UnbondStep)) =>
        LET a == last'.amount
            expected ==
              IF last'.op = "bond"
              THEN IF Paid(last') = 0 THEN E_NO_TOKENS ELSE E_BONDED
              ELSE IF a < invest.min_withdrawal THEN E_MIN_UNBOND
              ELSE IF a > Get(balances, last'.sender) THEN E_UNDERFLOW
              ELSE IF (a * invest.exit_tax) \div 100 > a THEN E_UNDERFLOW
              ELSE E_BONDED
        IN /\ ~ last'.ok
           /\ last'.err = expected
           /\ last'.msgs = << >>
           /\ supply' = supply
           /\ Mismatch'
      ]_vars

\* an Unbond that passed the earlier checks was refused for the mismatch, which
\* is still there
C16_Witness ==
    /\ last.op = "unbond"
    /\ last.err = E_BONDED
    /\ Mismatch

\* C17: every operation that changes Supply.bonded (Bond, Unbond and
\* _BondAllTokens) first compares the stored Supply.bonded with the queried
\* delegation total, and fails without changing Supply.bonded when they differ
\* (of _BondAllTokens, the calls that find enough free balance to reinvest).
C17_BondedChangeChecked ==
    [][(Mismatch /\ (BondStep \/ UnbondStep \/ (~ TooLittle /\ SelfBondAllTokensStep))) =>
        /\ ~ last'.ok
        /\ supply'.bonded = supply.bonded
      ]_vars

\* C18: an Unbond that passes the minimum-withdrawal and the sender-balance
\* check and then fails leaves the sender's balance, the owner's balance, the
\* claims and Supply exactly as they were before the call.
C18_UnbondAtomic ==
    [][( /\ ~ last'.ok
         /\ last'.amount >= invest.min_withdrawal
         /\ last'.amount <= Get(balances, last'.sender)
         /\ UnbondStep )
          => /\ Get(balances', last'.sender) = Get(balances, last'.sender)
             /\ Get(balances', invest.owner) = Get(balances, invest.owner)
             /\ claims' = claims
             /\ supply' = supply
      ]_vars

InitStep == ~ ready /\ last'.op = "init" /\ DoInit

\* C19: init fails, writing nothing, when the named validator is not in the
\* host's validator set (so a successful init has recorded a validator of the
\* set); when it succeeds it emits no instruction, records the sender as owner,
\* and leaves Supply at issued = bonded = claims = 0 with every balance and
\* every claim reading zero.
C19_Init ==
    [][InitStep =>
        /\ ~ last'.ok
              => ( /\ last'.err = E_NO_VALIDATOR
                   /\ last'.msgs = << >>
                   /\ UNCHANGED << storeVars, hostVars >> )
        /\ last'.ok
              => ( /\ \E i \in 1..Len(validators) :
                         validators[i].address = invest'.validator
                   /\ last'.msgs = << >>
                   /\ outbox' = << >>
                   /\ ready'
                   /\ invest'.owner = last'.sender
                   /\ supply' = [issued |-> 0, bonded |-> 0, claims |-> 0]
                   /\ \A a \in Users \cup {CONTRACT} :
                         Get(balances', a) = 0 /\ Get(claims', a) = 0 )
      ]_vars

\* an init naming a validator the host does not know was refused
C19_Witness ==
    /\ last.op = "init"
    /\ ~ last.ok
    /\ last.err = E_NO_VALIDATOR
    /\ ~ ready
    /\ invest = NoInvest

\* C20: InvestmentInfo is written by init only: once the contract is
\* initialised, no Transfer, Bond, Unbond, Claim, Reinvest or _BondAllTokens,
\* successful or not, changes any of its fields.
C20_InvestmentInfoFixed ==
    [][ready => (ready' /\ invest' = invest)]_vars

\* bonding, unbonding and a reinvestment have all happened under the
\* InvestmentInfo init wrote
C20_Witness ==
    /\ ready
    /\ last.op = "_bond_all_tokens"
    /\ last.sender = CONTRACT
    /\ Len(last.msgs) = 1
    /\ supply.claims > 0
    /\ invest.owner \in InitSenders
    /\ invest.bond_denom = BOND_DENOM

InvestmentQueryStep ==
    outbox = << >> /\ last'.op = "query_investment" /\ DoQueryInvestment

\* C21: the Investment query changes no state and reports token_supply =
\* Supply.issued, staked_tokens = Supply.bonded, and nominal_value = 1 when
\* Supply.issued is 0 (whatever Supply.bonded is) and Supply.bonded /
\* Supply.issued, to the precision of Decimal, otherwise.
C21_InvestmentQuery ==
    [][InvestmentQueryStep =>
        LET res == last'.response IN
        /\ UNCHANGED << storeVars, hostVars, outbox >>
        /\ res.token_supply = supply.issued
        /\ res.staked_tokens = [denom |-> invest.bond_denom, amount |-> supply.bonded]
        /\ supply.issued = 0 => res.nominal_value = DECIMAL_ONE
        /\ supply.issued > 0 =>
              /\ res.nominal_value * supply.issued <= supply.bonded * DECIMAL_ONE
              /\ (res.nominal_value + 1) * supply.issued > supply.bonded * DECIMAL_ONE
      ]_vars

\* the query answered 1 while nothing was issued and rewards had been bonded
C21_Witness ==
    /\ last.op = "query_investment"
    /\ supply.issued = 0
    /\ supply.bonded > 0
    /\ last.response.nominal_value = DECIMAL_ONE

SelectStep == last'.op = "select_validator" /\ DoSelectValidator

\* the validators of a sequence, as a set
Members(vals) == { vals[i] : i \in 1..Len(vals) }

\* C22: for every non-empty validator set, select_validator returns a member of
\* the set whose commission is the minimum over the set and whose
\* max-change-rate is the minimum among the validators with that commission.
C22_SelectsLowestCommission ==
    [][SelectStep =>
        LET v == last'.response IN
        /\ v \in Members(validators)
        /\ \A w \in Members(validators) :
              /\ v.commission <= w.commission
              /\ w.commission = v.commission => v.max_change_rate <= w.max_change_rate
      ]_vars

\* a validator with a higher commission and a lower max-change-rate was passed
\* over, and so was one with the same commission and a higher max-change-rate
C22_Witness ==
    /\ last.op = "select_validator"
    /\ last.response \in Members(validators)
    /\ \E w \in Members(validators) :
          /\ w.commission > last.response.commission
          /\ w.max_change_rate < last.response.max_change_rate
    /\ \E w \in Members(validators) :
          /\ w.commission = last.response.commission
          /\ w.max_change_rate > last.response.max_change_rate

\* C23: selection is deterministic: for the same validator set it always
\* returns the same validator, also when validators tie on both commission and
\* max-change-rate and when the host presents the set in another order (here
\* the set never changes, only its order does).
C23_SelectionDeterministic ==
    [][(last.op = "select_validator" /\ SelectStep)
          => last'.response = last.response]_vars

ClaimStep == outbox = << >> /\ last'.op = "claim" /\ DoClaim

\* C24: the claim map is changed only by Unbond, which raises the sender's
\* entry, and by Claim, which lowers the caller's entry; a Claim by an address
\* holding a positive claim entry lowers that entry and Supply.claims by the
\* amount settled (stated of the calls made when the undelegated funds are back
\* and the free balance covers the entry).
C24_ClaimSettles ==
    [][ /\ claims' # claims =>
              \/ /\ UnbondStep
                 /\ Get(claims', last'.sender) > Get(claims, last'.sender)
              \/ /\ ClaimStep
                 /\ Get(claims', last'.sender) < Get(claims, last'.sender)
        /\ ( /\ Get(claims, last'.sender) > 0
             /\ free >= Get(claims, last'.sender)
             /\ ClaimStep ) =>
              LET settled == Get(claims, last'.sender) - Get(claims', last'.sender) IN
              /\ settled > 0
              /\ supply'.claims = supply.claims - settled
      ]_vars

\* a Claim step of the specification of the delegator records
ClaimAsStep == last'.op = "claim" /\ DoClaimAs

\* where the record of address a stands in NoPosition -> Bonded ->
\* UnbondRequested -> Settled
Phase(dels, a) ==
    IF a \notin DOMAIN dels THEN "NoPosition"
    ELSE IF ~ dels[a].unbond_flag THEN "Bonded"
    ELSE IF dels[a].amount = 0 THEN "Settled"
    ELSE "UnbondRequested"

\* C25: a delegator record moves along NoPosition -> Bonded -> UnbondRequested
\* -> Settled only: it is created by the delegator's first bond, flagged by its
\* unbond request and settled by the unbond completion, which zeroes amount and
\* reward; Claim, the one handler that writes the records, creates none and
\* changes no record's phase, amount or flag.
C25_DelegatorLifecycle ==
    [][\A a \in DelegatorAddrs \cup Users :
        LET p == Phase(delegations, a)
            q == Phase(delegations', a)
        IN /\ p # q => << p, q >> \in { << "NoPosition", "Bonded" >>,
                                        << "Bonded", "UnbondRequested" >>,
                                        << "UnbondRequested", "Settled" >> }
           /\ (p # q /\ q = "Settled")
                 => delegations'[a].amount = 0 /\ delegations'[a].undelegate_reward = 0
           /\ ClaimAsStep
                 => /\ q = p
                    /\ a \in DOMAIN delegations
                          => /\ delegations'[a].amount = delegations[a].amount
                             /\ delegations'[a].unbond_flag = delegations[a].unbond_flag
      ]_vars

\* a Claim has set the reward of a record whose unbond was requested, and the
\* record is still in that phase, next to a settled one
C25_Witness ==
    /\ last.op = "claim"
    /\ last.ok
    /\ \E a \in DOMAIN delegations :
          Phase(delegations, a) = "UnbondRequested" /\ delegations[a].undelegate_reward > 0
    /\ \E a \in DOMAIN delegations : Phase(delegations, a) = "Settled"

\* the listed delegators assigned to the validator of the record of address a
OfValidator(a) ==
    { d \in DOMAIN delegations :
        /\ \E i \in 1..Len(delegators.list) : delegators.list[i] = d
        /\ delegations[d].validator = delegations[a].validator }

\* C26: a successful Claim, with T the sum of the recorded amounts of the listed
\* delegators on the caller's validator and reward = free balance - T, sets the
\* accrued reward of each of them to floor(reward * amount / T); the rewards so
\* assigned sum to at most reward, and the records of delegators on other
\* validators are left unchanged.
C26_RewardSplit ==
    [][(last'.ok /\ ClaimAsStep) =>
        LET mine == OfValidator(last'.sender)
            T == SumOver([d \in mine |-> delegations[d].amount], mine)
            reward == free - T
        IN /\ reward >= 0
           /\ T > 0
           /\ DOMAIN delegations' = DOMAIN delegations
           /\ \A d \in mine :
                 delegations'[d] =
                   [delegations[d] EXCEPT !.undelegate_reward =
                       (reward * delegations[d].amount) \div T]
           /\ SumOver([d \in mine |-> delegations'[d].undelegate_reward], mine) <= reward
           /\ \A d \in DOMAIN delegations \ mine : delegations'[d] = delegations[d]
      ]_vars

\* a split among two delegators that rounding kept below the reward, next to
\* the record of a delegator on another validator
C26_Witness ==
    /\ last.op = "claim"
    /\ last.ok
    /\ Cardinality(OfValidator(CONTRACT)) = 2
    /\ LET mine == OfValidator(CONTRACT)
           T == SumOver([d \in mine |-> delegations[d].amount], mine)
       IN /\ free > T
          /\ SumOver([d \in mine |-> delegations[d].undelegate_reward], mine) < free - T
    /\ \E d \in DOMAIN delegations \ OfValidator(CONTRACT) : delegations[d].amount > 0

\* C27: a Claim from any sender other than the contract fails and changes no
\* state, whether or not the sender has a delegator record and whether or not
\* the registry was ever written.
C27_ClaimByOthersFails ==
    [][(last'.sender # CONTRACT /\ ClaimAsStep) =>
        /\ ~ last'.ok
        /\ last'.err \in {E_PANIC, E_UNAUTHORIZED}
        /\ last'.msgs = << >>
        /\ UNCHANGED << storeVars, hostVars, outbox >>
      ]_vars

\* a delegator with a record was refused where the contract's own Claim would
\* have split a reward
C27_Witness ==
    /\ last.op = "claim"
    /\ last.sender # CONTRACT
    /\ last.err = E_UNAUTHORIZED
    /\ CONTRACT \in DOMAIN delegations
    /\ delegations[last.sender].validator = delegations[CONTRACT].validator
    /\ free > delegations[last.sender].amount + delegations[CONTRACT].amount

\* C29: the delegator registry is an append-only ordered list: a step that
\* changes it appends one address, keeping every earlier entry at its position
\* and putting the new address last; no step removes or reorders entries.
C29_RegistryAppendOnly ==
    [][/\ delegators.saved => delegators'.saved
       /\ Len(delegators'.list) >= Len(delegators.list)
       /\ SubSeq(delegators'.list, 1, Len(delegators.list)) = delegators.list
       /\ delegators'.list # delegators.list
             => /\ Len(delegators'.list) = Len(delegators.list) + 1
                /\ delegators'.list[Len(delegators'.list)] \in DOMAIN delegations'
                /\ delegators'.list[Len(delegators'.list)] \notin DOMAIN delegations
      ]_vars

\* three delegators were appended one after the other and a Claim has read the
\* registry since
C29_Witness ==
    /\ Len(delegators.list) = 3
    /\ delegators.list[1] # delegators.list[3]
    /\ last.op = "claim"
    /\ last.ok

\* the staking instructions of a response
StakingMsgs(msgs) ==
    { i \in 1..Len(msgs) : msgs[i].type \in {"Delegate", "Undelegate", "Withdraw"} }

\* C28: every staking instruction names InvestmentInfo.validator: a successful
\* Bond answers with one Delegate, a successful Unbond with one Undelegate, a
\* Reinvest with a Withdraw first, a BondAllTokens that bonds with one Delegate,
\* all of them to the validator fixed at init, whatever validator set the host
\* reports and whatever the selector would pick from it.
C28_TargetIsInitValidator ==
    /\ \A i \in StakingMsgs(last.msgs) : last.msgs[i].validator = invest.validator
    /\ \A i \in StakingMsgs(outbox) : outbox[i].validator = invest.validator
    /\ (last.ok /\ last.op = "bond")
          => Len(last.msgs) = 1 /\ last.msgs[1].type = "Delegate"
    /\ (last.ok /\ last.op = "unbond")
          => Len(last.msgs) = 1 /\ last.msgs[1].type = "Undelegate"
    /\ (last.ok /\ last.op = "reinvest")
          => Len(last.msgs) = 2 /\ last.msgs[1].type = "Withdraw"
    /\ (last.ok /\ last.op = "_bond_all_tokens" /\ last.msgs # << >>)
          => Len(last.msgs) = 1 /\ last.msgs[1].type = "Delegate"

\* an Undelegate waits for the host while the validator of init is no longer in
\* the host's set and the selector picks another validator
C28_Witness ==
    /\ last.op = "unbond"
    /\ last.ok
    /\ outbox = last.msgs
    /\ \A i \in 1..Len(validators) : validators[i].address # invest.validator
    /\ select_validator(validators).address # invest.validator

\* C30: the nominal value never decreases: a successful Bond, Unbond or
\* BondAllTokens from issued > 0 to issued > 0 has
\* bonded_after * issued_before >= bonded_before * issued_after.
C30_NominalValueMonotone ==
    [][(/\ supply.issued > 0
        /\ supply'.issued > 0
        /\ last'.ok
        /\ (BondStep \/ UnbondStep \/ SelfBondAllTokensStep))
         => supply'.bonded * supply.issued >= supply.bonded * supply'.issued
      ]_vars

\* an Unbond has left tokens that are each worth more than one base token
C30_Witness ==
    /\ last.op = "unbond"
    /\ last.ok
    /\ supply.issued > 0
    /\ supply.bonded > supply.issued

\* C31: after any sequence of operations, Supply.claims is the sum of all
\* entries of the claim map.
C31_ClaimsSumToSupply == supply.claims = Total(claims)

\* two holders have unbonded, one of them twice, and one Unbond has failed
\* since
C31_Witness ==
    /\ \E a \in DOMAIN claims, b \in DOMAIN claims :
          a # b /\ claims[a] > 1 /\ claims[b] > 0
    /\ last.op = "unbond"
    /\ ~ last.ok

\* C32: with exit_tax <= 1, an Unbond with amount > 0 that passes the
\* sender-balance debit finds Supply.issued >= amount - tax and Supply.issued > 0:
\* its conversion does not divide by zero and its subtractions do not underflow,
\* so an Unbond returns an underflow error only for the sender's insufficient
\* balance.
C32_UnbondArithmeticSafe ==
    [][(invest.exit_tax <= DECIMAL_ONE /\ UnbondStep) =>
        LET a == last'.amount
            tax == (a * invest.exit_tax) \div DECIMAL_ONE
        IN /\ ( /\ a > 0
                /\ a >= invest.min_withdrawal
                /\ a <= Get(balances, last'.sender) )
              => /\ tax <= a
                 /\ supply.issued >= a - tax
                 /\ supply.issued > 0
                 /\ last'.err \notin {E_UNDERFLOW, E_PANIC}
           /\ last'.err = E_UNDERFLOW => a > Get(balances, last'.sender)
           /\ last'.err # E_PANIC
      ]_vars

\* an Unbond at an exit tax of one has succeeded: the whole amount went to the
\* owner, nothing was burnt and the Undelegate is for nothing
C32_Witness ==
    /\ invest.exit_tax = DECIMAL_ONE
    /\ last.op = "unbond"
    /\ last.ok
    /\ last.sender # invest.owner
    /\ last.msgs[1].amount = 0
    /\ Get(balances, invest.owner) >= last.amount
    /\ supply.issued > 0

====
